---- MODULE Spec2Model ----
(***************************************************************************)
(* A model of scanner.py (wrongwe/index-of-scanner): the crawl scheduling  *)
(* core of ScannerCore.  Strings are sequences of one-character strings,   *)
(* so that strip, lower, urlparse, parse_qs, urlunparse and urljoin are    *)
(* computed the way the Python code computes them.                         *)
(***************************************************************************)
EXTENDS Integers, Sequences, FiniteSets, TLC

(***************************************************************************)
(* Python str helpers                                                      *)
(***************************************************************************)
UpperChars == <<"A","B","C","D","E","F","G","H","I","J","K","L","M",
                "N","O","P","Q","R","S","T","U","V","W","X","Y","Z">>
LowerChars == <<"a","b","c","d","e","f","g","h","i","j","k","l","m",
                "n","o","p","q","r","s","t","u","v","w","x","y","z">>
DigitChars == <<"0","1","2","3","4","5","6","7","8","9">>

IsUpper(c) == \E i \in 1..Len(UpperChars) : UpperChars[i] = c
IsLowerCh(c) == \E i \in 1..Len(LowerChars) : LowerChars[i] = c
IsDigit(c) == \E i \in 1..Len(DigitChars) : DigitChars[i] = c
DigitVal(c) == (CHOOSE i \in 1..Len(DigitChars) : DigitChars[i] = c) - 1

\* str.lower() on one character
lowerChar(c) ==
    IF IsUpper(c)
    THEN LowerChars[CHOOSE i \in 1..Len(UpperChars) : UpperChars[i] = c]
    ELSE c

\* str.lower()
lower(s) == [i \in 1..Len(s) |-> lowerChar(s[i])]

\* s[i:] with a 1-based i
From(s, i) == SubSeq(s, i, Len(s))

\* str.startswith(p)
startswith(s, p) == Len(s) >= Len(p) /\ SubSeq(s, 1, Len(p)) = p

\* str.strip(): leading and trailing blanks removed
strip(s) ==
    LET nb == {i \in 1..Len(s) : s[i] # " "}
    IN  IF nb = {} THEN <<>>
        ELSE SubSeq(s, CHOOSE i \in nb : \A j \in nb : i <= j,
                       CHOOSE i \in nb : \A j \in nb : i >= j)

\* str.rstrip('/'): every trailing slash removed
rstripSlash(s) ==
    LET ns == {i \in 1..Len(s) : s[i] # "/"}
    IN  IF ns = {} THEN <<>>
        ELSE SubSeq(s, 1, CHOOSE i \in ns : \A j \in ns : i >= j)

\* str.find(sub): the least 1-based index where sub occurs in s, or 0
find(s, sub) ==
    LET hits == {i \in 1..(Len(s) + 1) :
                    i + Len(sub) - 1 <= Len(s) /\ SubSeq(s, i, i + Len(sub) - 1) = sub}
    IN  IF hits = {} THEN 0 ELSE CHOOSE i \in hits : \A j \in hits : i <= j

\* sub in s
contains(s, sub) == find(s, sub) # 0

\* the least index of a character of the set cs in s, or Len(s)+1
firstOf(s, cs) ==
    LET hits == {i \in 1..Len(s) : s[i] \in cs}
    IN  IF hits = {} THEN Len(s) + 1 ELSE CHOOSE i \in hits : \A j \in hits : i <= j

\* str.split(sep) for a one-character sep: always at least one part
RECURSIVE split(_, _)
split(s, sep) ==
    LET i == firstOf(s, {sep})
    IN  IF i > Len(s) THEN <<s>>
        ELSE <<SubSeq(s, 1, i - 1)>> \o split(From(s, i + 1), sep)

\* sep.join(parts)
RECURSIVE join(_, _)
join(parts, sep) ==
    IF parts = <<>> THEN <<>>
    ELSE IF Len(parts) = 1 THEN parts[1]
    ELSE parts[1] \o sep \o join(Tail(parts), sep)

Last(s) == s[Len(s)]

(***************************************************************************)
(* CONFIG                                                                  *)
(***************************************************************************)
max_depth == 3
forbidden_ports == {22, 3306, 3389}
sensitive_ext ==
    {<<"c","o","n","f","i","g">>,
     <<"i","n","i">>,
     <<"e","n","v">>,
     <<"z","i","p">>,
     <<"b","a","k">>,
     <<"k","e","y">>,
     <<"c","o","n","f">>,
     <<"p","r","o","p","e","r","t","i","e","s">>,
     <<"s","q","l">>,
     <<"d","b">>,
     <<"d","b","f">>,
     <<"p","e","m">>,
     <<"c","r","t">>,
     <<"j","k","s">>,
     <<"p","1","2">>,
     <<"a","u","d","i","t">>}
\* the literal strings the two sensitive_paths regular expressions match
\* (re.I is moot: the path is lowercased before the search)
sensitive_paths ==
    <<[pattern |-> "/(backup|archive)/",
       alts |-> {<<"/","b","a","c","k","u","p","/">>, <<"/","a","r","c","h","i","v","e","/">>}],
      [pattern |-> "\\.(git|svn)/",
       alts |-> {<<".","g","i","t","/">>, <<".","s","v","n","/">>}]>>

(***************************************************************************)
(* urllib.parse                                                            *)
(***************************************************************************)
scheme_chars == {LowerChars[i] : i \in 1..26} \cup {UpperChars[i] : i \in 1..26}
                \cup {DigitChars[i] : i \in 1..10} \cup {"+", "-", "."}

\* urlsplit, step by step.  The model's strings hold no ';' (params), '@'
\* (userinfo) or '[' (IPv6 literal).
hasScheme(url, i) ==
    /\ i > 1
    /\ (IsLowerCh(url[1]) \/ IsUpper(url[1]))
    /\ \A k \in 1..(i - 1) : url[k] \in scheme_chars

splitScheme(url, i) ==
    IF hasScheme(url, i)
    THEN [scheme |-> lower(SubSeq(url, 1, i - 1)), rest |-> From(url, i + 1)]
    ELSE [scheme |-> <<>>, rest |-> url]

cutAt(s, i) == [head |-> SubSeq(s, 1, i - 1), sep |-> From(s, i), tail |-> From(s, i + 1)]

\* _splitnetloc: the netloc ends at the first of '/', '?', '#'
splitNetloc(url) ==
    IF startswith(url, <<"/", "/">>)
    THEN cutAt(From(url, 3), firstOf(From(url, 3), {"/", "?", "#"}))
    ELSE [head |-> <<>>, sep |-> url, tail |-> <<>>]

parsed4(scheme, netloc, fragment, q) ==
    [scheme |-> scheme, netloc |-> netloc, path |-> q.head,
     query |-> q.tail, fragment |-> fragment]

parsed3(scheme, netloc, f) ==
    parsed4(scheme, netloc, f.tail, cutAt(f.head, firstOf(f.head, {"?"})))

parsed2(scheme, n) ==
    parsed3(scheme, n.head, cutAt(n.sep, firstOf(n.sep, {"#"})))

parsed1(s) == parsed2(s.scheme, splitNetloc(s.rest))

urlparse(url) == parsed1(splitScheme(url, find(url, <<":">>)))

RECURSIVE toInt(_)
toInt(ds) == IF ds = <<>> THEN 0 ELSE 10 * toInt(SubSeq(ds, 1, Len(ds) - 1)) + DigitVal(Last(ds))

\* SplitResult.port: the text after the first ':' of the netloc; None when it
\* is empty, ValueError when it is no number or out of range
portOf(p) ==
    IF p = <<>> THEN [raises |-> FALSE, none |-> TRUE, n |-> 0]
    ELSE IF \E k \in 1..Len(p) : ~IsDigit(p[k])
         THEN [raises |-> TRUE, none |-> FALSE, n |-> 0]
    ELSE IF toInt(p) > 65535
         THEN [raises |-> TRUE, none |-> FALSE, n |-> 0]
    ELSE [raises |-> FALSE, none |-> FALSE, n |-> toInt(p)]

port(netloc) == portOf(From(netloc, firstOf(netloc, {":"}) + 1))

\* the percent escapes the model's strings use (hex digits arrive lowercased)
Escapes == {<<<<"2","6">>, "&">>, <<<<"2","3">>, "#">>, <<<<"2","5">>, "%">>,
            <<<<"3","d">>, "=">>, <<<<"3","D">>, "=">>, <<<<"2","f">>, "/">>,
            <<<<"2","0">>, " ">>}

\* unquote(s.replace('+', ' '))
RECURSIVE unquote(_)
unquote(s) ==
    IF s = <<>> THEN <<>>
    ELSE IF s[1] = "%" /\ Len(s) >= 3 /\ \E e \in Escapes : e[1] = SubSeq(s, 2, 3)
         THEN <<(CHOOSE e \in Escapes : e[1] = SubSeq(s, 2, 3))[2]>> \o unquote(From(s, 4))
    ELSE <<s[1]>> \o unquote(Tail(s))

plusToSpace(s) == [i \in 1..Len(s) |-> IF s[i] = "+" THEN " " ELSE s[i]]

\* parse_qsl(query, keep_blank_values=False): the (name, value) pairs, in
\* order; a field without '=' or with an empty value is dropped
field(f, e) ==
    IF f = <<>> \/ e > Len(f) \/ From(f, e + 1) = <<>> THEN <<>>
    ELSE <<<<unquote(plusToSpace(SubSeq(f, 1, e - 1))), unquote(plusToSpace(From(f, e + 1)))>>>>

RECURSIVE parse_qsl(_)
parse_qsl(fields) ==
    IF fields = <<>> THEN <<>>
    ELSE field(fields[1], firstOf(fields[1], {"="})) \o parse_qsl(Tail(fields))

\* parse_qs(query).items(), reduced to (key, v[0]): a dict keeps each key at
\* the position of its first occurrence, and v[0] is that occurrence's value
firstValues(pairs) ==
    SelectSeq([i \in 1..Len(pairs) |->
                  IF \E j \in 1..(i - 1) : pairs[j][1] = pairs[i][1]
                  THEN <<>> ELSE pairs[i]],
              LAMBDA x : x # <<>>)

parse_qs(query) == firstValues(parse_qsl(split(query, "&")))

\* urlunparse, with empty params
withNetloc(scheme, netloc, path) ==
    IF netloc # <<>> \/ (scheme # <<>> /\ ~startswith(path, <<"/", "/">>))
    THEN <<"/", "/">> \o netloc
         \o (IF path # <<>> /\ path[1] # "/" THEN <<"/">> ELSE <<>>) \o path
    ELSE path

urlunparse(scheme, netloc, path, query, fragment) ==
    (IF scheme # <<>> THEN scheme \o <<":">> ELSE <<>>)
    \o withNetloc(scheme, netloc, path)
    \o (IF query # <<>> THEN <<"?">> \o query ELSE <<>>)
    \o (IF fragment # <<>> THEN <<"#">> \o fragment ELSE <<>>)

HTTP == <<"h","t","t","p",":","/","/">>
HTTPS == <<"h","t","t","p","s",":","/","/">>
UTM == <<"u","t","m","_">>

(***************************************************************************)
(* ScannerCore._process_url: [raises, url]                                 *)
(***************************************************************************)
\* no scheme is prefixed
withHttp_asIs(l) == l

withHttp(l) == IF startswith(l, HTTP) \/ startswith(l, HTTPS) THEN l ELSE HTTP \o l

keyValue(kept) == [i \in 1..Len(kept) |-> kept[i][1] \o <<"=">> \o kept[i][2]]

clean_query(query) ==
    join(keyValue(SelectSeq(query, LAMBDA kv : ~startswith(kv[1], UTM))), <<"&">>)

\* the forbidden-port test is left out
rejected_portsAllowed(pt) == pt.raises

\* parsed.port in CONFIG["forbidden_ports"], or the port property raises
rejected(pt) == pt.raises \/ (~pt.none /\ pt.n \in forbidden_ports)

processParsed(parsed) ==
    IF rejected(port(parsed.netloc))
    THEN [raises |-> TRUE, url |-> <<>>]
    ELSE [raises |-> FALSE,
          url |-> urlunparse(parsed.scheme, parsed.netloc, rstripSlash(parsed.path),
                             clean_query(parse_qs(parsed.query)), parsed.fragment)]

_process_url(raw_url) == processParsed(urlparse(withHttp(lower(strip(raw_url)))))

(***************************************************************************)
(* ScannerCore._detect_sensitive: [sensitive, reason]                      *)
(***************************************************************************)
patternHits(path) ==
    {i \in 1..Len(sensitive_paths) : \E a \in sensitive_paths[i].alts : contains(path, a)}

Min(S) == CHOOSE i \in S : \A j \in S : i <= j

compound(parts) ==
    IF Len(parts) > 2 /\ \E k \in (Len(parts) - 1)..Len(parts) : parts[k] \in sensitive_ext
    THEN [sensitive |-> TRUE, kind |-> "compound", pattern |-> "",
          segs |-> SubSeq(parts, Len(parts) - 1, Len(parts))]
    ELSE [sensitive |-> FALSE, kind |-> "", pattern |-> "", segs |-> <<>>]

\* the compound check comes first
detect_compoundFirst(path, parts, hit) ==
    IF compound(parts).sensitive
    THEN compound(parts)
    ELSE IF Last(parts) \in sensitive_ext
    THEN [sensitive |-> TRUE, kind |-> "ext", pattern |-> "", segs |-> <<Last(parts)>>]
    ELSE IF hit # {}
    THEN [sensitive |-> TRUE, kind |-> "path",
          pattern |-> sensitive_paths[Min(hit)].pattern, segs |-> <<>>]
    ELSE compound(parts)

detect(path, parts, hit) ==
    IF Last(parts) \in sensitive_ext
    THEN [sensitive |-> TRUE, kind |-> "ext", pattern |-> "", segs |-> <<Last(parts)>>]
    ELSE IF hit # {}
    THEN [sensitive |-> TRUE, kind |-> "path",
          pattern |-> sensitive_paths[Min(hit)].pattern, segs |-> <<>>]
    ELSE compound(parts)

detectPath(path) == detect(path, split(path, "."), patternHits(path))

_detect_sensitive(url) == detectPath(lower(urlparse(url).path))

(***************************************************************************)
(* urllib.parse.urljoin(base, url), for http(s) bases.  An href of the     *)
(* form word:digits (read as a scheme or as a port, depending on the       *)
(* Python version) is outside the model's pages.                           *)
(***************************************************************************)
RECURSIVE resolve(_, _)
resolve(segments, acc) ==
    IF segments = <<>> THEN acc
    ELSE IF segments[1] = <<".", ".">>
         THEN resolve(Tail(segments), IF acc = <<>> THEN acc ELSE SubSeq(acc, 1, Len(acc) - 1))
    ELSE IF segments[1] = <<".">> THEN resolve(Tail(segments), acc)
    ELSE resolve(Tail(segments), Append(acc, segments[1]))

\* base_parts: the base path's segments without the last one, unless it is empty
base_parts(bp0) == IF Last(bp0) # <<>> THEN SubSeq(bp0, 1, Len(bp0) - 1) ELSE bp0

\* segments[1:-1] = filter(None, segments[1:-1])
filterInner(segments) ==
    IF Len(segments) < 2 THEN segments
    ELSE <<segments[1]>>
         \o SelectSeq(SubSeq(segments, 2, Len(segments) - 1), LAMBDA x : x # <<>>)
         \o <<Last(segments)>>

segmentsOf(bpath, path) ==
    IF startswith(path, <<"/">>) THEN split(path, "/")
    ELSE filterInner(base_parts(split(bpath, "/")) \o split(path, "/"))

resolvedPath(segments, r0) ==
    join(IF Last(segments) \in {<<".">>, <<".", ".">>} THEN Append(r0, <<>>) ELSE r0, <<"/">>)

orRoot(joined) == IF joined = <<>> THEN <<"/">> ELSE joined

joinPath(segments) == orRoot(resolvedPath(segments, resolve(segments, <<>>)))

joinParsed(base, url, b, u0, scheme) ==
    IF base = <<>> THEN url
    ELSE IF url = <<>> THEN base
    ELSE IF scheme # b.scheme THEN url
    ELSE IF u0.netloc # <<>>
         THEN urlunparse(scheme, u0.netloc, u0.path, u0.query, u0.fragment)
    ELSE IF u0.path = <<>>
         THEN urlunparse(scheme, b.netloc, b.path,
                         IF u0.query = <<>> THEN b.query ELSE u0.query, u0.fragment)
    ELSE urlunparse(scheme, b.netloc, joinPath(segmentsOf(b.path, u0.path)),
                    u0.query, u0.fragment)

\* the href is parsed with the base's scheme as its default
withDefault(b, u0) == IF u0.scheme = <<>> THEN b.scheme ELSE u0.scheme

joinWith(base, url, b, u0) == joinParsed(base, url, b, u0, withDefault(b, u0))

urljoin(base, url) == joinWith(base, url, urlparse(base), urlparse(url))

(***************************************************************************)
(* The inputs of a run: the target lists handed to run(), and the pages    *)
(* the mock transport serves (the hrefs of the body, in document order).   *)
(***************************************************************************)
EXAMPLE == <<"e","x","a","m","p","l","e",".","c","o","m">>

TargetLists ==
    { \* the end-to-end list
      <<EXAMPLE \o <<"/",".","e","n","v">>,
        EXAMPLE \o <<":","2","2","/","a","d","m","i","n">>,
        EXAMPLE \o <<"/","i","n","d","e","x",".","h","t","m","l">>>>,
      \* one page under three spellings (two after strip), and a blank line
      <<EXAMPLE \o <<"/","i","n","d","e","x",".","h","t","m","l">>,
        <<" ">> \o EXAMPLE \o <<"/","i","n","d","e","x",".","h","t","m","l">>,
        <<" ", " ">>,
        <<"H","T","T","P",":","/","/">> \o EXAMPLE \o <<"/","i","n","d","e","x",".","h","t","m","l","/">>>>,
      \* a page that links to a sensitive URL, a forbidden port, two spellings
      \* of one URL and itself; a sensitive seed that the page links to as well;
      \* a page without links
      <<EXAMPLE \o <<"/","d","i","r","/">>,
        EXAMPLE \o <<"/",".","e","n","v">>,
        EXAMPLE \o <<"/","b">>>>,
      \* more clean seeds than gate slots
      <<EXAMPLE \o <<"/","i","n","d","e","x",".","h","t","m","l">>,
        EXAMPLE \o <<"/","a",".","h","t","m","l">>,
        EXAMPLE \o <<"/","b">>>>,
      \* query strings (a tracking parameter, a repeated key, an empty and a
      \* missing value; a percent-escaped percent sign), and two archive names
      <<EXAMPLE \o <<"/","p","?","u","t","m","_","s","=","x","&","a","=","1","&","b","=","&","a","=","2","&","c">>,
        EXAMPLE \o <<"/","q","?","x","=","%","2","5","2","6">>,
        EXAMPLE \o <<"/","b","a","c","k","u","p",".","s","q","l",".","z","i","p">>,
        EXAMPLE \o <<"/","b","a","c","k","u","p",".","s","q","l",".","t","x","t">>>> }

\* how many hrefs of a served page the mock transport keeps
MaxLinks == 5

AllHrefs(url) ==
    IF url = HTTP \o EXAMPLE \o <<"/","i","n","d","e","x",".","h","t","m","l">>
    THEN <<<<"a",".","h","t","m","l">>, <<"/","b">>>>
    ELSE IF url = HTTP \o EXAMPLE \o <<"/","d","i","r">>
    THEN <<<<".","e","n","v">>,
           HTTP \o EXAMPLE \o <<":","2","2","/","x">>,
           <<"A",".","h","t","m","l">>,
           <<"a",".","h","t","m","l">>,
           <<"/","d","i","r","/">>,
           <<"/","b">>>>
    ELSE IF url = HTTP \o EXAMPLE \o <<"/","a",".","h","t","m","l">>
    THEN <<<<"c",".","h","t","m","l">>>>
    ELSE <<>>

\* soup.select('a[href]') on the body served for url
FirstLinks(all) == SubSeq(all, 1, IF Len(all) < MaxLinks THEN Len(all) ELSE MaxLinks)

Hrefs(url) == FirstLinks(AllHrefs(url))

\* every raw URL a run can hand to scan: the stripped targets, and the hrefs
\* of the served pages joined to their page's URL, level by level
TargetUrls == {strip(T[i]) : <<T, i>> \in {<<T, i>> \in TargetLists \X (1..8) : i <= Len(T)}}
Joined(u) == {urljoin(u, Hrefs(u)[k]) : k \in 1..Len(Hrefs(u))}
LinkedFrom(U) == UNION {Joined(_process_url(u).url) : u \in {v \in U : ~_process_url(v).raises}}
RawUrls ==
    TargetUrls \cup LinkedFrom(TargetUrls) \cup LinkedFrom(LinkedFrom(TargetUrls))
    \cup LinkedFrom(LinkedFrom(LinkedFrom(TargetUrls)))
    \cup LinkedFrom(LinkedFrom(LinkedFrom(LinkedFrom(TargetUrls))))

\* _process_url, _detect_sensitive and urljoin on the URLs of a run, computed
\* once
ProcessOf == [u \in RawUrls |-> _process_url(u)]
NormalizedUrls == {ProcessOf[u].url : u \in RawUrls}
DetectOf == [u \in NormalizedUrls |-> _detect_sensitive(u)]
NewUrls == [u \in NormalizedUrls |-> [k \in 1..Len(Hrefs(u)) |-> urljoin(u, Hrefs(u)[k])]]

\* what a GET can come to: a transport failure, a response that is HTML, a
\* response that is not, and an HTML response whose body cannot be read
Outcomes == {"error", "html", "other", "bodyerr"}

\* slots of the Fetch Gate (concurrency_range[1] in the program, scaled down)
GateCapacity == 2

(***************************************************************************)
(* State                                                                   *)
(***************************************************************************)
VARIABLES
    targets,        \* the argument of run()
    run_pc,         \* run(): "init", "gather", "report", "done"
    tasks,          \* the scan() coroutines: task id -> record
    dedup_filter,   \* self.dedup_filter, as an exact set
    stats,          \* self.stats: success_requests, failed_requests
    findings,       \* self.findings["SENSITIVE_FILES"]
    sem_value,      \* free slots of self.concurrency_sem
    _shutdown,      \* self._shutdown
    report          \* rows written by generate_reports

vars == <<targets, run_pc, tasks, dedup_filter, stats, findings, sem_value, _shutdown, report>>

\* A task id is the path to the task: <<i>> for the seed targets[i], and
\* t \o <<k>> for the child spawned for the k-th href of t's page.
Depth(t) == Len(t) - 1
Parent(t) == SubSeq(t, 1, Len(t) - 1)
IsPrefix(a, b) == Len(a) <= Len(b) /\ SubSeq(b, 1, Len(a)) = a

\* pc of a task: "created" (not yet run), "wait_sem" (in acquire), "fetching"
\* (GET issued), "scheduling" (in the for loop over the hrefs), "await_child"
\* (in wait_for), "done"
Holds(t) == tasks[t].pc \in {"fetching", "scheduling", "await_child"}
Pending(t) == tasks[t].pc \in {"wait_sem", "fetching", "scheduling", "await_child"}

NewTask(url, depth) ==
    [url |-> url, depth |-> depth, pc |-> "created", exit |-> "",
     processed |-> <<>>, fetched |-> FALSE, resp |-> "", k |-> 0]

Init ==
    /\ targets \in TargetLists
    /\ run_pc = "init"
    /\ tasks = <<>>
    /\ dedup_filter = {}
    /\ stats = [success_requests |-> 0, failed_requests |-> 0]
    /\ findings = <<>>
    /\ sem_value = GateCapacity
    /\ _shutdown = FALSE
    /\ report = <<>>

(***************************************************************************)
(* run(): one scan(url) per distinct stripped non-blank target             *)
(***************************************************************************)
SeedIndexes ==
    {i \in 1..Len(targets) :
        /\ strip(targets[i]) # <<>>
        /\ \A j \in 1..(i - 1) : strip(targets[j]) # strip(targets[i])}

RunStart ==
    /\ run_pc = "init"
    /\ run_pc' = "gather"
    /\ tasks' = [t \in {<<i>> : i \in SeedIndexes} |-> NewTask(strip(targets[t[1]]), 0)]
    /\ UNCHANGED <<targets, dedup_filter, stats, findings, sem_value, _shutdown, report>>

(***************************************************************************)
(* _graceful_shutdown                                                      *)
(***************************************************************************)
_graceful_shutdown ==
    /\ run_pc # "done"
    /\ ~_shutdown
    /\ _shutdown' = TRUE
    /\ UNCHANGED <<targets, run_pc, tasks, dedup_filter, stats, findings, sem_value, report>>

(***************************************************************************)
(* scan()                                                                  *)
(***************************************************************************)
\* an entry check that forgets the Shutdown Flag
EntryReturns_depthOnly(depth) == depth > max_depth

\* the entry check
EntryReturns(depth) == _shutdown \/ depth > max_depth

Terminate(t, why) == [tasks EXCEPT ![t].pc = "done", ![t].exit = why]

Failed == [stats EXCEPT !.failed_requests = @ + 1]

\* a gate that admits everyone
GateFree_always == TRUE

\* Semaphore.acquire returns at once only while a slot is free
GateFree == sem_value > 0

\* the tasks suspended in Semaphore.acquire
Waiters == {t \in DOMAIN tasks : tasks[t].pc = "wait_sem"}

\* async with self.concurrency_sem, entered by a scan that has just
\* classified its URL as clean: with a free slot and nobody waiting, acquire
\* returns at once and the GET is issued in the same step; with no free slot
\* the task is suspended; with a free slot and tasks still waiting for it,
\* the newcomer takes it (Python up to 3.10) or queues (Python 3.11 on)
EnterGate ==
    IF ~GateFree THEN {FALSE}
    ELSE IF Waiters = {} THEN {TRUE}
    ELSE {TRUE, FALSE}

Finding(url, d) ==
    [url |-> url, reason |-> [kind |-> d.kind, pattern |-> d.pattern, segs |-> d.segs]]

\* the body of scan up to the GET, with p the result of _process_url and d
\* the result of _detect_sensitive
Classify(t, p, d) ==
    IF p.raises
    THEN /\ tasks' = Terminate(t, "error")
         /\ stats' = Failed
         /\ UNCHANGED <<findings, sem_value>>
    ELSE IF p.url = <<>>
    THEN /\ tasks' = Terminate(t, "skipped")
         /\ UNCHANGED <<stats, findings, sem_value>>
    ELSE IF d.sensitive
    THEN /\ tasks' = [tasks EXCEPT ![t].pc = "done", ![t].exit = "sensitive",
                                   ![t].processed = p.url]
         /\ findings' = Append(findings, Finding(p.url, d))
         /\ UNCHANGED <<stats, sem_value>>
    ELSE /\ \E now \in EnterGate :
               /\ tasks' = [tasks EXCEPT ![t].pc = IF now THEN "fetching" ELSE "wait_sem",
                                         ![t].fetched = now,
                                         ![t].processed = p.url]
               /\ sem_value' = IF now THEN sem_value - 1 ELSE sem_value
         /\ UNCHANGED <<stats, findings>>

\* the classifier's verdict is dropped
Normalize_unclassified(t, p) ==
    Classify(t, p, [sensitive |-> FALSE, kind |-> "", pattern |-> "", segs |-> <<>>])

Normalize(t, p) == Classify(t, p, DetectOf[p.url])

\* from the entry of scan to its first suspension
Start(t) ==
    /\ t \in DOMAIN tasks
    /\ tasks[t].pc = "created"
    /\ IF EntryReturns(tasks[t].depth)
       THEN /\ tasks' = Terminate(t, "skipped")
            /\ UNCHANGED <<stats, findings, sem_value>>
       ELSE Normalize(t, ProcessOf[tasks[t].url])
    /\ UNCHANGED <<targets, run_pc, dedup_filter, _shutdown, report>>

\* a suspended acquire returns, and session.get is issued
Acquire(t) ==
    /\ t \in DOMAIN tasks
    /\ tasks[t].pc = "wait_sem"
    /\ GateFree
    /\ sem_value' = sem_value - 1
    /\ tasks' = [tasks EXCEPT ![t].pc = "fetching", ![t].fetched = TRUE]
    /\ UNCHANGED <<targets, run_pc, dedup_filter, stats, findings, _shutdown, report>>

\* links extracted at every depth
ShouldExtract_anyDepth(depth, outcome) == outcome \in {"html", "bodyerr"}

\* depth == 0 and 'text/html' in Content-Type
ShouldExtract(depth, outcome) == depth = 0 /\ outcome \in {"html", "bodyerr"}

\* the GET ends
Respond(t, outcome) ==
    /\ t \in DOMAIN tasks
    /\ tasks[t].pc = "fetching"
    /\ outcome = "bodyerr" => ShouldExtract(tasks[t].depth, outcome)
    /\ IF outcome = "error"
       THEN /\ tasks' = [tasks EXCEPT ![t].pc = "done", ![t].exit = "failed", ![t].resp = outcome]
            /\ stats' = Failed
            /\ sem_value' = sem_value + 1
       ELSE IF ~ShouldExtract(tasks[t].depth, outcome)
       THEN /\ tasks' = [tasks EXCEPT ![t].pc = "done", ![t].exit = "fetched", ![t].resp = outcome]
            /\ stats' = [stats EXCEPT !.success_requests = @ + 1]
            /\ sem_value' = sem_value + 1
       ELSE IF outcome = "bodyerr"
       THEN /\ tasks' = [tasks EXCEPT ![t].pc = "done", ![t].exit = "failed", ![t].resp = outcome]
            /\ stats' = [stats EXCEPT !.success_requests = @ + 1, !.failed_requests = @ + 1]
            /\ sem_value' = sem_value + 1
       ELSE /\ tasks' = [tasks EXCEPT ![t].pc = "scheduling", ![t].resp = outcome, ![t].k = 1]
            /\ stats' = [stats EXCEPT !.success_requests = @ + 1]
            /\ UNCHANGED sem_value
    /\ UNCHANGED <<targets, run_pc, dedup_filter, findings, _shutdown, report>>

(***************************************************************************)
(* _schedule_task                                                          *)
(***************************************************************************)
MaySchedule(url, depth) ==
    /\ ~_shutdown
    /\ depth <= max_depth
    /\ url \notin dedup_filter

\* _schedule_task(url, depth), called by t for its k-th href; c is the id
\* of the task it creates
_schedule_task(t, c, url, depth) ==
    IF MaySchedule(url, depth)
    THEN /\ dedup_filter' = dedup_filter \cup {url}
         /\ tasks' = [x \in DOMAIN tasks \cup {c} |->
                         IF x = c THEN NewTask(url, depth)
                         ELSE IF x = t THEN [tasks[t] EXCEPT !.pc = "await_child"]
                         ELSE tasks[x]]
    ELSE /\ tasks' = [tasks EXCEPT ![t].k = @ + 1]
         /\ UNCHANGED dedup_filter

\* one turn of the for loop: urljoin and the call of _schedule_task
ScheduleTask(t) ==
    /\ t \in DOMAIN tasks
    /\ tasks[t].pc = "scheduling"
    /\ tasks[t].k <= Len(NewUrls[tasks[t].processed])
    /\ _schedule_task(t, Append(t, tasks[t].k), NewUrls[tasks[t].processed][tasks[t].k],
                      tasks[t].depth + 1)
    /\ UNCHANGED <<targets, run_pc, stats, findings, sem_value, _shutdown, report>>

\* wait_for returns: the child has finished
ChildReturn(t) ==
    /\ t \in DOMAIN tasks
    /\ tasks[t].pc = "await_child"
    /\ tasks[Append(t, tasks[t].k)].pc = "done"
    /\ tasks' = [tasks EXCEPT ![t].pc = "scheduling", ![t].k = @ + 1]
    /\ UNCHANGED <<targets, run_pc, dedup_filter, stats, findings, sem_value, _shutdown, report>>

\* wait_for times out: the child (and what it awaits) is cancelled, and the
\* TimeoutError leaves the parent's loop and both of its async with blocks
\* and reaches its except clause.  CancelledError is no Exception: a
\* cancelled scan releases its slot and counts nothing.
Cancelled(c) == {d \in DOMAIN tasks : IsPrefix(c, d) /\ tasks[d].pc # "done"}

\* a cancellation that leaves the cancelled tasks' slots taken
Cancel_leak(t, cancelled) ==
    /\ tasks' = [x \in DOMAIN tasks |->
                    IF x \in cancelled
                    THEN [tasks[x] EXCEPT !.pc = "done", !.exit = "cancelled"]
                    ELSE IF x = t
                    THEN [tasks[t] EXCEPT !.pc = "done", !.exit = "timeout"]
                    ELSE tasks[x]]
    /\ sem_value' = sem_value + 1

Cancel(t, cancelled) ==
    /\ tasks' = [x \in DOMAIN tasks |->
                    IF x \in cancelled
                    THEN [tasks[x] EXCEPT !.pc = "done", !.exit = "cancelled"]
                    ELSE IF x = t
                    THEN [tasks[t] EXCEPT !.pc = "done", !.exit = "timeout"]
                    ELSE tasks[x]]
    /\ sem_value' = sem_value + 1 + Cardinality({d \in cancelled : Holds(d)})

\* a child awaited without a timeout
Timeout_never(t) == FALSE /\ UNCHANGED vars

Timeout(t) ==
    /\ t \in DOMAIN tasks
    /\ tasks[t].pc = "await_child"
    /\ Pending(Append(t, tasks[t].k))
    /\ Cancel(t, Cancelled(Append(t, tasks[t].k)))
    /\ stats' = Failed
    /\ UNCHANGED <<targets, run_pc, dedup_filter, findings, _shutdown, report>>

\* a scan that returns from its loop without giving its slot back
Finish_keepsSlot(t) ==
    /\ t \in DOMAIN tasks
    /\ tasks[t].pc = "scheduling"
    /\ tasks[t].k > Len(NewUrls[tasks[t].processed])
    /\ tasks' = Terminate(t, "fetched")
    /\ UNCHANGED <<targets, run_pc, dedup_filter, stats, findings, sem_value, _shutdown, report>>

\* the for loop is over: both async with blocks are left
Finish(t) ==
    /\ t \in DOMAIN tasks
    /\ tasks[t].pc = "scheduling"
    /\ tasks[t].k > Len(NewUrls[tasks[t].processed])
    /\ tasks' = Terminate(t, "fetched")
    /\ sem_value' = sem_value + 1
    /\ UNCHANGED <<targets, run_pc, dedup_filter, stats, findings, _shutdown, report>>

(***************************************************************************)
(* run(): gather returns, the report is written                            *)
(***************************************************************************)
GatherDone ==
    /\ run_pc = "gather"
    /\ \A t \in DOMAIN tasks : Len(t) = 1 => tasks[t].pc = "done"
    /\ run_pc' = "report"
    /\ UNCHANGED <<targets, tasks, dedup_filter, stats, findings, sem_value, _shutdown, report>>

generate_reports ==
    /\ run_pc = "report"
    /\ report' = [i \in 1..Len(findings) |-> <<"high", findings[i].url, findings[i].reason>>]
    /\ run_pc' = "done"
    /\ UNCHANGED <<targets, tasks, dedup_filter, stats, findings, sem_value, _shutdown>>

Next ==
    \/ RunStart
    \/ _graceful_shutdown
    \/ \E t \in DOMAIN tasks : Start(t)
    \/ \E t \in DOMAIN tasks : Acquire(t)
    \/ \E t \in DOMAIN tasks, o \in Outcomes : Respond(t, o)
    \/ \E t \in DOMAIN tasks : ScheduleTask(t)
    \/ \E t \in DOMAIN tasks : ChildReturn(t)
    \/ \E t \in DOMAIN tasks : Timeout(t)
    \/ \E t \in DOMAIN tasks : Finish(t)
    \/ GatherDone
    \/ generate_reports

Spec == Init /\ [][Next]_vars

\* the event loop runs whatever is ready and every GET ends; the interrupt
\* signal need not ever arrive
Progress ==
    \/ RunStart
    \/ \E t \in DOMAIN tasks : Start(t)
    \/ \E t \in DOMAIN tasks : Acquire(t)
    \/ \E t \in DOMAIN tasks, o \in Outcomes : Respond(t, o)
    \/ \E t \in DOMAIN tasks : ScheduleTask(t)
    \/ \E t \in DOMAIN tasks : ChildReturn(t)
    \/ \E t \in DOMAIN tasks : Timeout(t)
    \/ \E t \in DOMAIN tasks : Finish(t)
    \/ GatherDone
    \/ generate_reports

FairSpec == Spec /\ WF_vars(Progress)

(***************************************************************************)
(* Properties                                                              *)
(***************************************************************************)
Fetching == {t \in DOMAIN tasks : tasks[t].pc = "fetching"}
Holders == {t \in DOMAIN tasks : Holds(t)}
Seeds == {t \in DOMAIN tasks : Len(t) = 1}
Children == {t \in DOMAIN tasks : Len(t) > 1}
AllDone == \A t \in DOMAIN tasks : tasks[t].pc = "done"

\* the port of a raw URL as scan's normalization reads it
RawPort(raw) == port(urlparse(withHttp(lower(strip(raw)))).netloc)
ForbiddenRaw == {u \in RawUrls : ~RawPort(u).raises /\ ~RawPort(u).none
                                   /\ RawPort(u).n \in forbidden_ports}
PortForbidden(raw) == raw \in ForbiddenRaw

\* the raw URLs that normalize to a URL that classifies as sensitive, with
\* the Finding scan is to record for each
SensitiveRawUrls ==
    {u \in RawUrls : ~_process_url(u).raises /\ _detect_sensitive(_process_url(u).url).sensitive}
SensitiveRaw(raw) == raw \in SensitiveRawUrls
FindingOf ==
    [u \in SensitiveRawUrls |->
        Finding(_process_url(u).url, _detect_sensitive(_process_url(u).url))]
\* the normalized URLs that do not classify as sensitive
CleanUrls ==
    {_process_url(u).url : u \in {v \in RawUrls : ~_process_url(v).raises /\ ~SensitiveRaw(v)}}

\* C1: the branches that hold a Fetch Gate slot and whose GET has not ended
\* are never more than the gate's capacity.
C1_ConcurrencyBound == Cardinality(Fetching) <= GateCapacity

\* the gate is full of running GETs while another branch waits for a slot
C1_Witness ==
    /\ Cardinality(Fetching) = GateCapacity
    /\ \E t \in DOMAIN tasks : tasks[t].pc = "wait_sem"

\* C2: a scheduled URL (seed or child) whose normalized form classifies as
\* sensitive never waits for or holds a slot and never has a GET issued; once
\* its scan has run past the entry check it has ended with a Finding of the
\* normalized URL and the classifier's reason; and no GET is ever issued for a
\* normalized URL that classifies as sensitive.
C2_SensitiveNeverFetched ==
    /\ \A t \in DOMAIN tasks :
          SensitiveRaw(tasks[t].url) =>
             /\ ~tasks[t].fetched
             /\ tasks[t].pc \in {"created", "done"}
             /\ tasks[t].pc = "done" => tasks[t].exit \in {"sensitive", "skipped"}
             /\ tasks[t].exit = "skipped" => _shutdown
             /\ tasks[t].exit = "sensitive" =>
                   \E i \in 1..Len(findings) :
                      findings[i] = FindingOf[tasks[t].url]
    /\ \A t \in DOMAIN tasks :
          tasks[t].fetched => tasks[t].processed \in CleanUrls

\* a sensitive seed and a sensitive extracted child have both been recorded
C2_Witness ==
    /\ \E t \in Seeds : tasks[t].exit = "sensitive"
    /\ \E t \in Children : tasks[t].exit = "sensitive"
    /\ Len(findings) >= 2

\* the failed-request counter counts one per branch that ended in its except
\* clause
FailedBranches == {t \in DOMAIN tasks : tasks[t].exit \in {"error", "failed", "timeout"}}

\* C3: a raw URL (seed or child) whose port is 22, 3306 or 3389 never waits
\* for or holds a slot and never has a GET issued; its scan, once past the
\* entry check, ends in the error exit, which counts one failed request; and
\* the parent of such a child is not ended by it but goes on to its next href.
C3_ForbiddenPortRejected ==
    /\ \A t \in DOMAIN tasks :
          PortForbidden(tasks[t].url) =>
             /\ ~tasks[t].fetched
             /\ tasks[t].processed = <<>>
             /\ tasks[t].pc \in {"created", "done"}
             /\ tasks[t].pc = "done" => tasks[t].exit \in {"error", "skipped"}
             /\ tasks[t].exit = "skipped" => _shutdown
    /\ stats.failed_requests = Cardinality(FailedBranches)
    /\ \A c \in Children :
          tasks[c].exit = "error" =>
             \/ tasks[Parent(c)].pc = "await_child" /\ tasks[Parent(c)].k = Last(c)
             \/ tasks[Parent(c)].k > Last(c)

\* a forbidden-port child was rejected, a later sibling of it was fetched,
\* and another seed branch was fetched as well
C3_Witness ==
    /\ \E c \in Children :
          /\ PortForbidden(tasks[c].url) /\ tasks[c].exit = "error"
          /\ \E d \in Children :
                Parent(d) = Parent(c) /\ Last(d) > Last(c) /\ tasks[d].exit = "fetched"
          /\ \E t \in Seeds : t # Parent(c) /\ tasks[t].exit = "fetched"
    /\ stats.failed_requests = 1

\* C4: at most one GET is issued for any one normalized URL, however many
\* raw URLs (seeds or extracted children) normalize to it.
C4_OneGetPerNormalizedUrl ==
    \A t1, t2 \in DOMAIN tasks :
       (tasks[t1].fetched /\ tasks[t2].fetched /\ tasks[t1].processed = tasks[t2].processed)
          => t1 = t2

\* C5: once the Shutdown Flag is set, a scan that starts returns at entry and
\* changes nothing else, no step adds a dedup entry, and no child task is
\* created.
C5_NoSchedulingAfterShutdown ==
    [][_shutdown =>
          /\ dedup_filter' = dedup_filter
          /\ \A t \in DOMAIN tasks' : t \notin DOMAIN tasks => Len(t) = 1
          /\ \A t \in DOMAIN tasks :
                (tasks[t].pc = "created" /\ tasks'[t].pc # "created") =>
                   /\ tasks' = [tasks EXCEPT ![t].pc = "done", ![t].exit = "skipped"]
                   /\ findings' = findings
                   /\ stats' = stats
                   /\ sem_value' = sem_value]_vars

\* the flag was set in mid-run: a scan has returned at entry, a page fetched
\* at depth 0 ended normally with an href left unscheduled, and a GET issued
\* before is still running
C5_Witness ==
    /\ _shutdown
    /\ \E t \in DOMAIN tasks : tasks[t].exit = "skipped"
    /\ \E t \in DOMAIN tasks : tasks[t].pc = "fetching"
    /\ \E t \in Seeds :
          /\ tasks[t].exit = "fetched" /\ tasks[t].resp = "html"
          /\ \E k \in 1..Len(Hrefs(tasks[t].processed)) :
                /\ Append(t, k) \notin DOMAIN tasks
                /\ urljoin(tasks[t].processed, Hrefs(tasks[t].processed)[k]) \notin dedup_filter

\* C6: a branch that has entered the loop over its page's hrefs ends only
\* after the loop has gone through every href, whatever became of the
\* children it awaited.
C6_ErrorsContained ==
    \A t \in DOMAIN tasks :
       (tasks[t].pc = "done" /\ tasks[t].k > 0) =>
          tasks[t].k = Len(Hrefs(tasks[t].processed)) + 1

\* C7: the step that cancels a child whose wait_for timed out leaves no
\* cancelled task holding a slot: the held and the free slots add up to the
\* capacity again, and the failed-request counter has gone up by one.
C7_TimeoutCancelsChild ==
    [][(\E c \in DOMAIN tasks : tasks[c].exit # "cancelled" /\ tasks'[c].exit = "cancelled") =>
          /\ \A c \in DOMAIN tasks : tasks'[c].exit = "cancelled" => tasks'[c].pc = "done"
          /\ sem_value' + Cardinality({t \in DOMAIN tasks' : tasks'[t].pc \in
                                          {"fetching", "scheduling", "await_child"}})
                = GateCapacity
          /\ stats'.failed_requests = stats.failed_requests + 1]_vars

\* one child was cancelled while its GET was running, another while it was
\* still waiting for a slot
C7_Witness ==
    /\ \E c \in Children : tasks[c].exit = "cancelled" /\ tasks[c].fetched
    /\ \E c \in Children :
          tasks[c].exit = "cancelled" /\ ~tasks[c].fetched /\ tasks[c].processed # <<>>

\* C8: every run ends: the report is written and every task has terminated.
C8_RunCompletes == <>[](run_pc = "done" /\ AllDone)

\* a finished run with more fetching seeds than gate slots
C8_Witness ==
    /\ run_pc = "done"
    /\ AllDone
    /\ Cardinality({t \in Seeds : tasks[t].fetched}) > GateCapacity

\* C9: every task has a depth in 0..max_depth, in fact 0 or 1, and only a
\* depth-0 task whose response was HTML ever enters the loop over hrefs.
C9_DepthBound ==
    \A t \in DOMAIN tasks :
       /\ tasks[t].depth = Depth(t)
       /\ tasks[t].depth \in 0..max_depth
       /\ tasks[t].depth <= 1
       /\ tasks[t].k > 0 => tasks[t].depth = 0 /\ tasks[t].resp = "html"

\* a depth-1 page that has hrefs was fetched as HTML and ended; none of its
\* hrefs became a task
C9_Witness ==
    \E t \in Children :
       /\ tasks[t].depth = 1
       /\ tasks[t].exit = "fetched" /\ tasks[t].resp = "html"
       /\ Hrefs(tasks[t].processed) # <<>>
       /\ run_pc = "done"

E2ETargets ==
    <<EXAMPLE \o <<"/",".","e","n","v">>,
      EXAMPLE \o <<":","2","2","/","a","d","m","i","n">>,
      EXAMPLE \o <<"/","i","n","d","e","x",".","h","t","m","l">>>>

\* the mock transport served index.html as HTML and every GET ended in time
E2EServed ==
    /\ tasks[<<3>>].resp = "html"
    /\ \A t \in DOMAIN tasks : tasks[t].exit \notin {"timeout", "cancelled"}

\* C10: a finished, uninterrupted run over the end-to-end seed list has exactly
\* one Finding, the .env URL; no GET was issued for the port-22 URL;
\* index.html was fetched at depth 0; when it was served as HTML in time, each
\* of its hrefs became a depth-1 task; and no task is deeper than 1.
C10_EndToEnd ==
    (targets = E2ETargets /\ run_pc = "done" /\ ~_shutdown) =>
       /\ DOMAIN findings = {1}
       /\ findings[1].url = HTTP \o EXAMPLE \o <<"/",".","e","n","v">>
       /\ findings[1].reason.kind = "ext"
       /\ ~tasks[<<2>>].fetched /\ tasks[<<2>>].exit = "error"
       /\ \A t \in DOMAIN tasks : tasks[t].fetched => ~PortForbidden(tasks[t].url)
       /\ tasks[<<3>>].fetched /\ tasks[<<3>>].depth = 0
       /\ tasks[<<3>>].processed = HTTP \o EXAMPLE \o <<"/","i","n","d","e","x",".","h","t","m","l">>
       /\ E2EServed =>
             \A k \in 1..Len(Hrefs(tasks[<<3>>].processed)) :
                /\ Append(<<3>>, k) \in DOMAIN tasks
                /\ tasks[Append(<<3>>, k)].depth = 1
                /\ tasks[Append(<<3>>, k)].url =
                      urljoin(tasks[<<3>>].processed, Hrefs(tasks[<<3>>].processed)[k])
       /\ \A t \in DOMAIN tasks : tasks[t].depth <= 1

\* the end-to-end run has finished with index.html's links fetched at depth 1
C10_Witness ==
    /\ targets = E2ETargets /\ run_pc = "done" /\ ~_shutdown
    /\ E2EServed
    /\ Len(findings) = 1
    /\ \E t \in Children : tasks[t].fetched /\ tasks[t].exit = "fetched"
    /\ stats.success_requests = 3 /\ stats.failed_requests = 1
\* the parameters a query string spells out, in order: one (key, value) per
\* non-empty field, the value empty when the field has no '=' or nothing
\* after it
pairOf(f, e) == <<SubSeq(f, 1, e - 1), From(f, e + 1)>>
Params(query) ==
    [i \in 1..Len(SelectSeq(split(query, "&"), LAMBDA f : f # <<>>)) |->
        pairOf(SelectSeq(split(query, "&"), LAMBDA f : f # <<>>)[i],
               firstOf(SelectSeq(split(query, "&"), LAMBDA f : f # <<>>)[i], {"="}))]
\* the raw URLs without a percent escape or a plus sign: their parameters
\* read the same encoded and decoded
PlainRawUrls == {u \in RawUrls : \A i \in 1..Len(u) : u[i] \notin {"%", "+"}}
\* the parameters of a plain raw URL that are to survive normalization: all
\* but the utm_ ones, each key once with its first value
KeptParams ==
    [u \in PlainRawUrls |->
        firstValues(SelectSeq(Params(urlparse(withHttp(lower(strip(u)))).query),
                              LAMBDA kv : ~startswith(kv[1], UTM)))]
ParamsOf == [u \in NormalizedUrls |-> Params(urlparse(u).query)]

\* C11: the normalized URL of a raw URL carries exactly the raw URL's
\* parameters whose key does not start with utm_, empty and missing values
\* included, each key once with its first value, in the original key order.
C11_OnlyUtmRemoved ==
    \A t \in DOMAIN tasks :
       (tasks[t].processed # <<>> /\ tasks[t].url \in PlainRawUrls) =>
          ParamsOf[tasks[t].processed] = KeptParams[tasks[t].url]

\* _process_url on the normalized URLs of a run
Reprocessed == [u \in NormalizedUrls |-> _process_url(u)]

\* C12: _process_url applied to a URL it returned succeeds and returns that
\* URL again.
C12_NormalizeIdempotent ==
    \A t \in DOMAIN tasks :
       tasks[t].processed # <<>> =>
          /\ ~Reprocessed[tasks[t].processed].raises
          /\ Reprocessed[tasks[t].processed].url = tasks[t].processed

\* the lowercased path of each normalized URL of a run, and its
\* dot-separated segments
PathOf == [u \in NormalizedUrls |-> lower(urlparse(u).path)]
SegmentsOf == [u \in NormalizedUrls |-> split(PathOf[u], ".")]
BackupSqlZip == <<"/","b","a","c","k","u","p",".","s","q","l",".","z","i","p">>
ZIP == <<"z","i","p">>

\* C13 (as amended): a URL whose path is backup.sql.zip is reported sensitive
\* by the extension check, which comes first, with a reason that cites zip
\* alone; a compound reason is given only to a path of more than two
\* segments whose last segment is no sensitive extension, whose second-last
\* is one and which matches no path pattern, and it cites those two segments.
C13_ExtensionFirst ==
    /\ \A t \in DOMAIN tasks :
          (tasks[t].processed # <<>> /\ PathOf[tasks[t].processed] = BackupSqlZip) =>
             /\ tasks[t].pc = "done" /\ tasks[t].exit = "sensitive" /\ ~tasks[t].fetched
             /\ \E i \in 1..Len(findings) :
                   /\ findings[i].url = tasks[t].processed
                   /\ findings[i].reason = [kind |-> "ext", pattern |-> "", segs |-> <<ZIP>>]
    /\ \A i \in 1..Len(findings) :
          /\ PathOf[findings[i].url] = BackupSqlZip => findings[i].reason.kind = "ext"
          /\ findings[i].reason.kind = "compound" =>
                /\ Len(SegmentsOf[findings[i].url]) > 2
                /\ Last(SegmentsOf[findings[i].url]) \notin sensitive_ext
                /\ SegmentsOf[findings[i].url][Len(SegmentsOf[findings[i].url]) - 1]
                      \in sensitive_ext
                /\ patternHits(PathOf[findings[i].url]) = {}
                /\ findings[i].reason.segs =
                      SubSeq(SegmentsOf[findings[i].url],
                             Len(SegmentsOf[findings[i].url]) - 1,
                             Len(SegmentsOf[findings[i].url]))

\* backup.sql.zip was recorded with the extension reason and backup.sql.txt
\* with the compound reason sql+txt
C13_Witness ==
    /\ \E i \in 1..Len(findings) :
          /\ PathOf[findings[i].url] = BackupSqlZip
          /\ findings[i].reason.kind = "ext"
    /\ \E i \in 1..Len(findings) :
          /\ findings[i].reason.kind = "compound"
          /\ findings[i].reason.segs = <<<<"s","q","l">>, <<"t","x","t">>>>

\* C13 (as stated): the finding for backup.sql.zip has the compound reason
\* citing sql and zip.
C13_CompoundFires ==
    \A i \in 1..Len(findings) :
       PathOf[findings[i].url] = BackupSqlZip =>
          /\ findings[i].reason.kind = "compound"
          /\ findings[i].reason.segs = <<<<"s","q","l">>, ZIP>>

\* C14: the slots that are not free are those of the branches whose own GET
\* is running: a branch that is scheduling or awaiting its children holds
\* none.
C14_SlotOnlyForOwnGet == sem_value + Cardinality(Fetching) = GateCapacity

\* the children of parent t that are spawned and have not terminated
InFlightChildren(t) == {c \in Children : Parent(c) = t /\ tasks[c].pc # "done"}

\* C15: in a run in which a parent spawns two children, some state has two
\* children of that parent in flight at the same time: the second is spawned
\* without waiting for the first to terminate.
C15_SiblingsOverlap ==
    \/ [](\A t \in DOMAIN tasks : Cardinality({c \in Children : Parent(c) = t}) < 2)
    \/ <>(\E t \in DOMAIN tasks : Cardinality(InFlightChildren(t)) >= 2)

\* C16: every URL for which a GET was issued, seed or child, is in the Dedup
\* Set (as handed to scan or as normalized), and no extracted link is fetched
\* when a seed with the same normalized URL has been fetched.
C16_FetchedAreDeduped ==
    /\ \A t \in DOMAIN tasks :
          tasks[t].fetched =>
             (tasks[t].url \in dedup_filter \/ tasks[t].processed \in dedup_filter)
    /\ \A t \in Seeds, c \in Children :
          ~(tasks[t].fetched /\ tasks[c].fetched /\ tasks[t].processed = tasks[c].processed)

\* C17: once the Shutdown Flag is set, a branch that is waiting for a slot
\* does not acquire one and issues no GET.
C17_WaitersStopAfterShutdown ==
    [][_shutdown =>
          \A t \in DOMAIN tasks :
             tasks[t].pc = "wait_sem" => tasks'[t].pc # "fetching"]_vars

\* the scan invocations that passed the entry check, those that counted a
\* successful request and those that counted a failed one
Entered == {t \in DOMAIN tasks : tasks[t].pc # "created" /\ tasks[t].exit # "skipped"}
CountedSuccess == {t \in DOMAIN tasks : tasks[t].resp \in {"html", "other", "bodyerr"}}

\* C18: no scan invocation counts both a successful and a failed request,
\* and the two counters together never exceed the number of invocations that
\* passed the entry check.
C18_OneCountPerScan ==
    /\ stats.success_requests = Cardinality(CountedSuccess)
    /\ stats.failed_requests = Cardinality(FailedBranches)
    /\ CountedSuccess \cap FailedBranches = {}
    /\ stats.success_requests + stats.failed_requests <= Cardinality(Entered)

\* C19: every entry of the findings list has a URL that classifies as
\* sensitive, and no normalized URL is in the list twice.
C19_FindingsUnique ==
    /\ \A i \in 1..Len(findings) : DetectOf[findings[i].url].sensitive
    /\ \A i, j \in 1..Len(findings) : findings[i].url = findings[j].url => i = j

\* C20: the free slots and the slots held by live scans always add up to the
\* capacity, no scan that has ended holds one, and once gather has returned
\* every task has ended and every slot is free.
C20_SlotsConserved ==
    /\ sem_value \in 0..GateCapacity
    /\ sem_value + Cardinality(Holders) = GateCapacity
    /\ run_pc \in {"report", "done"} => (AllDone /\ sem_value = GateCapacity)

\* gather has returned after a run in which a scan returned normally from
\* its loop, a GET failed, and a child was cancelled while its GET was running
C20_Witness ==
    /\ run_pc = "report"
    /\ sem_value = GateCapacity
    /\ \E t \in DOMAIN tasks : tasks[t].exit = "fetched" /\ tasks[t].k > 0
    /\ \E t \in DOMAIN tasks : tasks[t].exit = "failed" /\ tasks[t].resp = "error"
    /\ \E c \in Children : tasks[c].exit = "cancelled" /\ tasks[c].fetched
====
